---- MODULE Spec2Model ----
(***************************************************************************)
(* consul-failover: the agents of one cluster, each running                *)
(* ConsulHandler.monitor() on its own node against one Consul cluster (the *)
(* coordinator).  A step of an agent is one access to state it shares with *)
(* the other agents or with the environment (the check status, the         *)
(* sessions, the leader lock), together with the calls on the node's own   *)
(* service registration that surround it: only the agent's own process     *)
(* writes that registration, so nothing can be observed between them.      *)
(* The handler the agents call is opaque to the control loop; the Mysql     *)
(* handler of bin/mysql-consul.py and the server it manages are modelled   *)
(* on one node, a call of ensure_master / ensure_slave being one step.      *)
(* HTTPHandler.do_GET and ConsulHandler.is_healthy are functions of their   *)
(* inputs and are modelled on their own, over every request path and every *)
(* set of agent checks of a bounded size.                                  *)
(***************************************************************************)
EXTENDS Integers, Sequences, FiniteSets, TLC

Nodes == {"A", "B"}

\* Session ids available per node.  An id is reused only when nothing refers
\* to it any more, which is indistinguishable from Consul's fresh UUIDs.
MaxSessionIds == 3

\* Termination signals delivered to one agent process.
MaxSignals == 1

NoSession == <<"None", 0>>
NoNode == "None"
SessionIds == Nodes \X (1..MaxSessionIds)

VARIABLES
    \* ---- coordinator (Consul) state
    svcTag,          \* node -> tag of the service registration on the node's agent
    check,           \* node -> status of the check service:<cluster>
    sessions,        \* live sessions named <cluster>
    lock,            \* session holding lock/<cluster>/leader
    lockDelay,       \* lock-delay after an invalidation is still running
    \* ---- agent process
    pc,              \* node -> position of the main thread
    consul_status,   \* node -> check status read by is_healthy() in this tick
    is_healthy,      \* node -> monitor()'s local is_healthy
    flag_seen,       \* node -> os.path.exists(disable_flag_file) in this tick
    session,         \* node -> value of get_session() / get_existing_session()
    acquired,        \* node -> result of kv.put(..., acquire=session)
    leader_session,  \* node -> get_leader()'s leader_session
    leader,          \* node -> monitor()'s leader
    tag_arg,         \* node -> argument of set_tag() in this tick
    calls,           \* node -> handler calls made in this tick
    steps,           \* node -> the stages of monitor()'s loop body run in this tick
    create_failed,   \* node -> session.create raised ConsulException in this tick
    sd_registered,   \* node -> deregister(): cluster_name in services
    sdLog,           \* node -> coordinator mutations made by graceful_exit
    signals,         \* node -> signals delivered
    failure,         \* node -> what raised the exception that ends the process
    \* ---- the Mysql handler of one node (bin/mysql-consul.py) and its server
    read_only,       \* @@read_only of the MySQL server
    Master_Host,     \* Master_Host of SHOW SLAVE STATUS (NoNode: no slave status)
    Slave_Running,   \* Slave_IO_Running and Slave_SQL_Running are 'Yes'
    GTID_EXECUTED,   \* @@GLOBAL.GTID_EXECUTED: the transactions the server has executed
    transactions,    \* host -> value of the key mysql/<host>/transactions ({}: no key)
    last,            \* the handler call made last: what it found and what it did
    \* ---- one GET request to the API server (HTTPHandler.do_GET)
    path,            \* self.path.split('/'): the pieces of the request path around '/'
    health,          \* the (state_ok, state_text) that handler.health() returns
    response,        \* what do_GET did with the request
    \* ---- one call of ConsulHandler.is_healthy()
    checks,          \* the value of consul.agent.checks(): check name -> Status
    check_state      \* the value is_healthy() returned

coord == <<svcTag, check, sessions, lock, lockDelay>>
locals == <<consul_status, is_healthy, flag_seen, session, acquired,
            leader_session, leader, tag_arg, calls, steps, create_failed>>
shutdown == <<sd_registered, sdLog, signals>>
mysql == <<read_only, Master_Host, Slave_Running, GTID_EXECUTED, transactions, last>>
probes == <<path, health, response, checks, check_state>>
vars == <<svcTag, check, sessions, lock, lockDelay, pc, consul_status,
          is_healthy, flag_seen, session, acquired, leader_session, leader,
          tag_arg, calls, steps, create_failed, sd_registered, sdLog, signals,
          failure, read_only, Master_Host, Slave_Running, GTID_EXECUTED,
          transactions, last, path, health, response, checks, check_state>>

Tags == {"master", "slave", "unhealthy", "disabled"}
Statuses == {"passing", "critical"}

\* Positions of monitor().
MonitorPcs == {"register", "sleep", "set_tag", "get_existing_session",
               "session_create", "create_backoff", "kv_acquire", "get_leader",
               "session_info", "ensure_master", "ensure_slave"}
\* Positions of graceful_exit() -> deregister().
ShutdownPcs == {"deregister", "sd_existing_session", "sd_destroy", "sd_deregister"}
\* The process has ended: sys.exit(0), or an uncaught exception.
EndPcs == {"exited", "crashed"}

\* Positions at which the next step is a Consul RPC other than session.create.
RpcPcs == {"register", "sleep", "set_tag", "get_existing_session", "kv_acquire",
           "get_leader", "session_info", "deregister", "sd_existing_session",
           "sd_destroy", "sd_deregister"}

Running(a) == pc[a] \notin EndPcs

\* Exit status of the process: sys.exit(0) gives 0, an uncaught exception 1.
ExitStatus(a) == IF pc[a] = "exited" THEN 0 ELSE IF pc[a] = "crashed" THEN 1 ELSE -1

-----------------------------------------------------------------------------
\* Coordinator primitives

SessionNode(s) == s[1]

\* consul.session.node(hostname): the sessions of this node named <cluster>
NodeSessions(n) == {s \in sessions : SessionNode(s) = n}

Referenced(s) ==
    \/ s \in sessions
    \/ s = lock
    \/ \E a \in Nodes : session[a] = s \/ leader_session[a] = s

FreeIds(n) == {i \in 1..MaxSessionIds : ~Referenced(<<n, i>>)}

NewSessionId(n) == <<n, CHOOSE i \in FreeIds(n) : \A j \in FreeIds(n) : i <= j>>

\* Invalidation of the sessions S: they disappear, a lock one of them holds is
\* released and the lock-delay starts.
Invalidate(S) ==
    /\ sessions' = sessions \ S
    /\ lock' = IF lock \in S THEN NoSession ELSE lock
    /\ lockDelay' = IF lock \in S THEN TRUE ELSE lockDelay

\* A coordinator that refuses the acquire of the session that holds the lock.
KvAcquireOkFresh(s) == lock = NoSession /\ ~lockDelay

\* kv.put(key, acquire=s) for a live session s: true iff s now owns the lock.
KvAcquireOk(s) == lock = s \/ (lock = NoSession /\ ~lockDelay)

-----------------------------------------------------------------------------
\* The Mysql handler (bin/mysql-consul.py): constants and decisions

\* Transactions (GTIDs) that exist in the cluster.
MaxTransactions == 2
Transactions == 1..MaxTransactions

\* socket.gethostname() of the node the handler runs on.
hostname == "A"

\* What query() finds of the connection during a handler call: every
\* statement is answered ("ok"); the connection has been lost, so that the
\* first statement of the call raises OperationalError, query() reconnects
\* and returns {}, and the following statements are answered ("lost"); or the
\* server cannot be reached and every statement returns {} ("down").
Connections == {"ok", "lost", "down"}

\* The server's configuration the handler manages.
Config == <<read_only, Master_Host, Slave_Running>>

\* No handler call has been made yet.  (Of a call: the connection it found,
\* the configuration before it, the statements it had executed, whether it
\* put its key and changed the key's value, whether it declined, and whether
\* the call before it was the same call.)
NoCall == [call |-> "none", arg |-> NoNode, conn |-> "ok",
           before |-> <<1, NoNode, FALSE>>, statements |-> <<>>,
           put |-> FALSE, kv_changed |-> FALSE, declined |-> FALSE,
           repeated |-> FALSE]

\* master_is_ahead(master_host): master_transactions = the key of the master;
\* False if there is none, else whether GTID_SUBTRACT(master_transactions,
\* @@GLOBAL.GTID_EXECUTED) leaves anything.
master_is_ahead(master_host) ==
    /\ transactions[master_host] # {}
    /\ transactions[master_host] \ GTID_EXECUTED # {}

\* ensure_master(): slave_status.get('Master_Host') and slave_status[
\* 'Master_Host'] != socket.gethostname() and self.master_is_ahead(...)
Declines(master_host) ==
    /\ master_host # NoNode
    /\ master_host # hostname
    /\ master_is_ahead(master_host)

\* An ensure_slave() that switches masters on every call.
MasterSwitchAlways(slave_master, master_host) == TRUE

\* ensure_slave(): if not slave_status or slave_status.get('Master_Host') !=
\* master_host: do a master switch
MasterSwitch(slave_master, master_host) ==
    slave_master = NoNode \/ slave_master # master_host

-----------------------------------------------------------------------------
NoLocals == [consul_status |-> "unset", is_healthy |-> "None", flag_seen |-> "None",
             session |-> NoSession, acquired |-> "None", leader_session |-> NoSession,
             leader |-> NoNode, tag_arg |-> "None", calls |-> {}, steps |-> <<>>,
             create_failed |-> FALSE]

\* The state once start_handler() has constructed the ConsulHandler on the
\* nodes S and is about to call monitor(); on the other nodes no agent runs.
Started(S) ==
    /\ svcTag = [a \in Nodes |-> "absent"]
    /\ check = [a \in Nodes |-> "none"]
    /\ sessions = {}
    /\ lock = NoSession
    /\ lockDelay = FALSE
    /\ pc = [a \in Nodes |-> IF a \in S THEN "register" ELSE "exited"]
    /\ consul_status = [a \in Nodes |-> NoLocals.consul_status]
    /\ is_healthy = [a \in Nodes |-> NoLocals.is_healthy]
    /\ flag_seen = [a \in Nodes |-> NoLocals.flag_seen]
    /\ session = [a \in Nodes |-> NoLocals.session]
    /\ acquired = [a \in Nodes |-> NoLocals.acquired]
    /\ leader_session = [a \in Nodes |-> NoLocals.leader_session]
    /\ leader = [a \in Nodes |-> NoLocals.leader]
    /\ tag_arg = [a \in Nodes |-> NoLocals.tag_arg]
    /\ calls = [a \in Nodes |-> NoLocals.calls]
    /\ steps = [a \in Nodes |-> NoLocals.steps]
    /\ create_failed = [a \in Nodes |-> NoLocals.create_failed]
    /\ sd_registered = [a \in Nodes |-> "None"]
    /\ sdLog = [a \in Nodes |-> <<>>]
    /\ signals = [a \in Nodes |-> 0]
    /\ failure = [a \in Nodes |-> "none"]

\* The Mysql handler has made no call; its server is a fresh read-only one.
MysqlIdle ==
    /\ read_only = 1
    /\ Master_Host = NoNode
    /\ Slave_Running = FALSE
    /\ GTID_EXECUTED = {}
    /\ transactions = [h \in Nodes |-> {}]
    /\ last = NoCall

\* The pieces of the path "/health", the one route of the API server.
HealthPath == <<"", "health">>

\* No request has reached the API server and is_healthy() has not been called.
NoResponse == [sent |-> "none", status_code |-> 0, response_text |-> "",
               health_called |-> FALSE]
NoChecks == <<>>

ProbesIdle ==
    /\ path = HealthPath
    /\ health = <<"True", "ok">>
    /\ response = NoResponse
    /\ checks = NoChecks
    /\ check_state = "None"

Init == Started(Nodes) /\ MysqlIdle /\ ProbesIdle

-----------------------------------------------------------------------------
\* Decisions of the code, as operators

\* An is_healthy() that takes every status but 'critical' for healthy.
IsHealthyOfNotCritical(status) == IF status = "critical" THEN "False" ELSE "True"

\* is_healthy(): a check state of 'passing' is True, anything else (and a
\* missing check, status "none") is False.
IsHealthyOf(status) == IF status = "passing" THEN "True" ELSE "False"

\* A monitor() that forgets the "if not is_healthy" exit of the tick.
HealthBranchIgnored(h) == "check_flag"

\* monitor(): if not is_healthy: set_tag('unhealthy'); continue
HealthBranch(h) == IF h = "True" THEN "check_flag" ELSE "set_tag"

\* A monitor() that forgets the "continue" of the disabled tick.
FlagBranchIgnored(f) == "get_existing_session"

\* monitor(): if os.path.exists(self.disable_flag_file): get_tag() for the log
\* line, set_tag('disabled'), continue; else go on to get_session()
FlagBranch(f) == IF f = "True" THEN "set_tag" ELSE "get_existing_session"

\* What get_existing_session() gives when it raises.
MultipleSessions == <<"raise", 0>>

\* A get_existing_session() that returns a session however many it finds.
ExistingSessionAny(ls) == IF ls = {} THEN NoSession ELSE CHOOSE s \in ls : TRUE

\* get_existing_session(): local_sessions = the sessions of this node named
\* <cluster>; more than one: raise Exception('Multiple ... leader sessions
\* found'); one: return its ID; none: return None.
ExistingSession(ls) ==
    IF ls # {} /\ Cardinality(ls) # 1 THEN MultipleSessions
    ELSE IF ls # {} THEN CHOOSE s \in ls : TRUE
    ELSE NoSession

\* A get_session() that creates a session whatever the lookup returned.
SessionBranchCreate(s) == "session_create"

\* get_session(): if session: return session; else the session.create loop
SessionBranch(s) == IF s # NoSession THEN "kv_acquire" ELSE "session_create"

\* A get_session() that lets the ConsulException of session.create escape.
CreateFailedRaise == "crashed"

\* get_session(): except ConsulException: log, time.sleep(2), and the
\* while True loop calls session.create again.
CreateFailed == "create_backoff"

\* A monitor() that becomes master whatever the acquire returned.
AcquireBranchIgnored(ok) == "set_tag"

\* A monitor() that calls ensure_master() first and leaves the tag for later.
AcquireBranchHandlerFirst(ok) == IF ok = "True" THEN "ensure_master" ELSE "get_leader"

\* monitor(): if kv.put(..., acquire=session): set_tag('master') else get_leader()
AcquireBranch(ok) == IF ok = "True" THEN "set_tag" ELSE "get_leader"

\* monitor(): if leader: set_tag('slave') ... else: log 'Unable to lock ...'
LeaderBranch(l) == IF l # NoNode THEN "set_tag" ELSE "sleep"

\* A set_tag() that always finds the tag in place and registers nothing.
SetTagNever(current, tag) == TRUE

\* set_tag(): take no action if the service is registered with exactly [tag]
SetTagNoop(current, tag) == current = tag

\* A monitor() that sets the tag 'slave' and leaves the handler alone.
AfterSetTagNoSlave(tag) ==
    CASE tag = "master" -> "ensure_master"
      [] OTHER -> "sleep"

\* monitor(): what follows set_tag(tag)
AfterSetTag(tag) ==
    CASE tag = "master" -> "ensure_master"
      [] tag = "slave" -> "ensure_slave"
      [] OTHER -> "sleep"

\* A deregister() that deregisters the service before it destroys the session.
DeregisterStepSwapped(p, hasSession) ==
    CASE p = "sd_existing_session" -> "sd_deregister"
      [] p = "sd_deregister" -> IF hasSession THEN "sd_destroy" ELSE "exited"
      [] OTHER -> "exited"

\* deregister(): the order of its coordinator calls after the session lookup:
\* destroy the session if there is one, then deregister the service, then
\* graceful_exit() calls sys.exit(0).
DeregisterStep(p, hasSession) ==
    CASE p = "sd_existing_session" ->
            IF hasSession THEN "sd_destroy" ELSE "sd_deregister"
      [] p = "sd_destroy" -> "sd_deregister"
      [] OTHER -> "exited"

\* A graceful_exit() that returns into the interrupted loop instead of exiting.
SysExitReturns(interrupted, p) == IF p = "exited" THEN "sleep" ELSE p

\* graceful_exit(): sys.exit(0) raises SystemExit in the frame the signal
\* interrupted.  Inside the try of get_leader() its bare except catches it
\* and raises Exception in its place, which ends the process with status 1.
SysExit(interrupted, p) == IF p = "exited" /\ interrupted # "none" THEN "crashed" ELSE p

Bool(b) == IF b THEN "True" ELSE "False"

\* The handler calls monitor() makes.
MasterCall == <<"ensure_master", NoNode>>
SlaveCall(l) == <<"ensure_slave", l>>

Locals(a) ==
    [consul_status |-> consul_status[a], is_healthy |-> is_healthy[a],
     flag_seen |-> flag_seen[a], session |-> session[a], acquired |-> acquired[a],
     leader_session |-> leader_session[a], leader |-> leader[a],
     tag_arg |-> tag_arg[a], calls |-> calls[a], steps |-> steps[a],
     create_failed |-> create_failed[a]]

\* Agent a's locals become the record r.
SetLocals(a, r) ==
    /\ consul_status' = [consul_status EXCEPT ![a] = r.consul_status]
    /\ is_healthy' = [is_healthy EXCEPT ![a] = r.is_healthy]
    /\ flag_seen' = [flag_seen EXCEPT ![a] = r.flag_seen]
    /\ session' = [session EXCEPT ![a] = r.session]
    /\ acquired' = [acquired EXCEPT ![a] = r.acquired]
    /\ leader_session' = [leader_session EXCEPT ![a] = r.leader_session]
    /\ leader' = [leader EXCEPT ![a] = r.leader]
    /\ tag_arg' = [tag_arg EXCEPT ![a] = r.tag_arg]
    /\ calls' = [calls EXCEPT ![a] = r.calls]
    /\ steps' = [steps EXCEPT ![a] = r.steps]
    /\ create_failed' = [create_failed EXCEPT ![a] = r.create_failed]

\* An uncaught exception ends the process (monitor() and graceful_exit() have
\* no try/except around their calls); the frames and their locals are gone.
Raise(a, why) ==
    /\ pc' = [pc EXCEPT ![a] = "crashed"]
    /\ failure' = [failure EXCEPT ![a] = why]
    /\ SetLocals(a, NoLocals)

-----------------------------------------------------------------------------
\* monitor()

\* register(): services = agent.services(); if the service is not registered:
\* agent.service.register(cluster_name, port, check); time.sleep(1).
\* A new check starts critical until its first probe.
Register(a) ==
    /\ pc[a] = "register"
    /\ svcTag' = [svcTag EXCEPT ![a] = IF @ = "absent" THEN "none" ELSE @]
    /\ check' = [check EXCEPT ![a] = IF svcTag[a] = "absent" THEN "critical" ELSE @]
    /\ pc' = [pc EXCEPT ![a] = "sleep"]
    /\ UNCHANGED <<sessions, lock, lockDelay, locals, shutdown, failure>>
    /\ UNCHANGED <<mysql, probes>>

\* while True: time.sleep(2); is_healthy = self.is_healthy();
\* if not is_healthy: set_tag('unhealthy');
\* if os.path.exists(self.disable_flag_file): set_tag('disabled').
\* The values of the previous tick are dead from here on (each is assigned
\* before it is read), so the tick starts from NoLocals.  f is what the
\* operator has done with the disable flag file.
IsHealthy(a) ==
    /\ pc[a] = "sleep"
    /\ LET h == IsHealthyOf(check[a])
           r == [NoLocals EXCEPT !.consul_status = check[a], !.is_healthy = h,
                                 !.steps = <<"health">>]
       IN IF HealthBranch(h) = "set_tag"
          THEN /\ SetLocals(a, [r EXCEPT !.tag_arg = "unhealthy"])
               /\ pc' = [pc EXCEPT ![a] = "set_tag"]
          ELSE \E f \in BOOLEAN :
                 LET next == FlagBranch(Bool(f)) IN
                 /\ SetLocals(a, [r EXCEPT !.flag_seen = Bool(f),
                                           !.steps = Append(@, "disable"),
                                           !.tag_arg = IF next = "set_tag"
                                                       THEN "disabled" ELSE "None"])
                 /\ pc' = [pc EXCEPT ![a] = next]
    /\ UNCHANGED <<coord, shutdown, failure>>
    /\ UNCHANGED <<mysql, probes>>

\* set_tag(tag): services = agent.services(); return if the service is
\* registered with exactly [tag]; else agent.service.register(..., tags=[tag]),
\* which replaces the tags of the registration (the check keeps its status).
\* For 'disabled' the get_tag() that precedes it (it only decides a log line)
\* is part of the step.
SetTag(a) ==
    /\ pc[a] = "set_tag"
    /\ IF SetTagNoop(svcTag[a], tag_arg[a])
       THEN UNCHANGED <<svcTag, check>>
       ELSE /\ svcTag' = [svcTag EXCEPT ![a] = tag_arg[a]]
            /\ check' = [check EXCEPT ![a] = IF @ = "none" THEN "critical" ELSE @]
    /\ SetLocals(a, [Locals(a) EXCEPT !.steps = Append(@, "tag")])
    /\ pc' = [pc EXCEPT ![a] = AfterSetTag(tag_arg[a])]
    /\ UNCHANGED <<sessions, lock, lockDelay, shutdown, failure>>
    /\ UNCHANGED <<mysql, probes>>

\* get_session(): session = self.get_existing_session()
GetExistingSession(a) ==
    /\ pc[a] = "get_existing_session"
    /\ LET s == ExistingSession(NodeSessions(a)) IN
         IF s = MultipleSessions
         THEN Raise(a, "multiple_sessions")
         ELSE /\ SetLocals(a, [Locals(a) EXCEPT !.session = s,
                                                !.steps = Append(@, "session")])
              /\ pc' = [pc EXCEPT ![a] = SessionBranch(s)]
              /\ UNCHANGED failure
    /\ UNCHANGED <<coord, shutdown>>
    /\ UNCHANGED <<mysql, probes>>

\* get_session(): return self.consul.session.create(name, checks, lock_delay=1)
\* Consul refuses a session bound to a missing or critical check.
SessionCreate(a) ==
    /\ pc[a] = "session_create"
    /\ check[a] = "passing"
    /\ FreeIds(a) # {}
    /\ LET s == NewSessionId(a) IN
         /\ sessions' = sessions \cup {s}
         /\ SetLocals(a, [Locals(a) EXCEPT !.session = s])
    /\ pc' = [pc EXCEPT ![a] = "kv_acquire"]
    /\ UNCHANGED <<svcTag, check, lock, lockDelay, shutdown, failure>>
    /\ UNCHANGED <<mysql, probes>>

\* get_session(): except ConsulException: log
SessionCreateFail(a) ==
    /\ pc[a] = "session_create"
    /\ pc' = [pc EXCEPT ![a] = CreateFailed]
    /\ SetLocals(a, [Locals(a) EXCEPT !.create_failed = TRUE])
    /\ UNCHANGED <<coord, shutdown, failure>>
    /\ UNCHANGED <<mysql, probes>>

\* get_session(): time.sleep(2), then the while loop tries again
CreateBackoff(a) ==
    /\ pc[a] = "create_backoff"
    /\ pc' = [pc EXCEPT ![a] = "session_create"]
    /\ UNCHANGED <<coord, locals, shutdown, failure>>
    /\ UNCHANGED <<mysql, probes>>

\* if self.consul.kv.put('lock/<cluster>/leader', value='', acquire=session):
\* Consul answers an acquire with a session that no longer exists by an error.
KvAcquire(a) ==
    /\ pc[a] = "kv_acquire"
    /\ IF session[a] \notin sessions
       THEN /\ Raise(a, "invalid_session")
            /\ UNCHANGED lock
       ELSE LET ok == KvAcquireOk(session[a])
                next == AcquireBranch(Bool(ok))
            IN /\ lock' = IF ok THEN session[a] ELSE lock
               /\ SetLocals(a, [Locals(a) EXCEPT !.acquired = Bool(ok),
                                   !.session = NoSession,
                                   !.create_failed = FALSE,
                                   !.steps = Append(@, "acquire"),
                                   !.tag_arg = IF next = "set_tag" THEN "master" ELSE @])
               /\ pc' = [pc EXCEPT ![a] = next]
               /\ UNCHANGED failure
    /\ UNCHANGED <<svcTag, check, sessions, lockDelay, shutdown>>
    /\ UNCHANGED <<mysql, probes>>

\* get_leader(): leader_lock = kv.get(...); leader_session = ...get('Session');
\* if not leader_session: return  (monitor() then logs and ends the tick)
GetLeader(a) ==
    /\ pc[a] = "get_leader"
    /\ SetLocals(a, [Locals(a) EXCEPT !.leader_session = lock])
    /\ pc' = [pc EXCEPT ![a] = IF lock = NoSession THEN LeaderBranch(NoNode)
                                 ELSE "session_info"]
    /\ UNCHANGED <<coord, shutdown, failure>>
    /\ UNCHANGED <<mysql, probes>>

\* get_leader(): try: return session.info(leader_session)[1]['Node']
\*               except: raise Exception('... leader-locked by invalid session ID')
SessionInfo(a) ==
    /\ pc[a] = "session_info"
    /\ IF leader_session[a] \notin sessions
       THEN Raise(a, "invalid_leader_session")
       ELSE LET l == SessionNode(leader_session[a])
                next == LeaderBranch(l)
            IN /\ SetLocals(a, [Locals(a) EXCEPT !.leader = l,
                                   !.leader_session = NoSession,
                                   !.tag_arg = IF next = "set_tag" THEN "slave" ELSE @])
               /\ pc' = [pc EXCEPT ![a] = next]
               /\ UNCHANGED failure
    /\ UNCHANGED <<coord, shutdown>>
    /\ UNCHANGED <<mysql, probes>>

\* self.apphandler.ensure_master() returns
EnsureMaster(a) ==
    /\ pc[a] = "ensure_master"
    /\ SetLocals(a, [Locals(a) EXCEPT !.calls = @ \cup {MasterCall},
                                      !.steps = Append(@, "role")])
    /\ pc' = [pc EXCEPT ![a] = "sleep"]
    /\ UNCHANGED <<coord, shutdown, failure>>
    /\ UNCHANGED <<mysql, probes>>

\* self.apphandler.ensure_slave(leader) returns
EnsureSlave(a) ==
    /\ pc[a] = "ensure_slave"
    /\ SetLocals(a, [Locals(a) EXCEPT !.calls = @ \cup {SlaveCall(leader[a])},
                                      !.steps = Append(@, "role")])
    /\ pc' = [pc EXCEPT ![a] = "sleep"]
    /\ UNCHANGED <<coord, shutdown, failure>>
    /\ UNCHANGED <<mysql, probes>>

\* ensure_master() / ensure_slave() raises: nothing in monitor() catches it
HandlerRaise(a) ==
    /\ pc[a] \in {"ensure_master", "ensure_slave"}
    /\ Raise(a, "handler")
    /\ UNCHANGED <<coord, shutdown>>
    /\ UNCHANGED <<mysql, probes>>

\* A Consul RPC fails (timeout, connection refused, HTTP 500): the client
\* raises, and neither monitor() nor graceful_exit() catches it.
CoordinatorError(a) ==
    /\ pc[a] \in RpcPcs
    /\ Raise(a, "rpc")
    /\ UNCHANGED <<coord, shutdown>>
    /\ UNCHANGED <<mysql, probes>>

-----------------------------------------------------------------------------
\* graceful_exit(): self.deregister(); sys.exit(0)

\* SIGINT / SIGTERM: the handler installed by monitor() runs on the main
\* thread at whatever point the signal arrives; the interrupted code never
\* resumes, but for the except clause of get_leader() when the signal came
\* during its session.info call.
Signal(a) ==
    /\ Running(a)
    /\ signals[a] < MaxSignals
    /\ signals' = [signals EXCEPT ![a] = @ + 1]
    /\ pc' = [pc EXCEPT ![a] = "deregister"]
    /\ failure' = [failure EXCEPT ![a] = IF pc[a] = "session_info"
                                         THEN "interrupted_session_info" ELSE @]
    /\ SetLocals(a, NoLocals)
    /\ UNCHANGED <<coord, sd_registered, sdLog>>
    /\ UNCHANGED <<mysql, probes>>

\* deregister(): services = agent.services(); return if not registered
Deregister(a) ==
    /\ pc[a] = "deregister"
    /\ sd_registered' = [sd_registered EXCEPT ![a] = Bool(svcTag[a] # "absent")]
    /\ pc' = [pc EXCEPT ![a] = IF svcTag[a] # "absent" THEN "sd_existing_session"
                                 ELSE SysExit(failure[a], "exited")]
    /\ UNCHANGED <<coord, locals, sdLog, signals, failure>>
    /\ UNCHANGED <<mysql, probes>>

\* deregister(): session = self.get_existing_session()
SdExistingSession(a) ==
    /\ pc[a] = "sd_existing_session"
    /\ LET s == ExistingSession(NodeSessions(a)) IN
         IF s = MultipleSessions
         THEN Raise(a, "multiple_sessions")
         ELSE /\ SetLocals(a, [Locals(a) EXCEPT !.session = s])
              /\ pc' = [pc EXCEPT ![a] = SysExit(failure[a],
                                             DeregisterStep(pc[a], s # NoSession))]
              /\ UNCHANGED failure
    /\ UNCHANGED <<coord, shutdown>>
    /\ UNCHANGED <<mysql, probes>>

\* deregister(): self.consul.session.destroy(session)
SdDestroy(a) ==
    /\ pc[a] = "sd_destroy"
    /\ Invalidate({session[a]})
    /\ sdLog' = [sdLog EXCEPT ![a] = Append(@, "destroy")]
    /\ pc' = [pc EXCEPT ![a] = SysExit(failure[a],
                                    DeregisterStep(pc[a], session[a] # NoSession))]
    /\ UNCHANGED <<svcTag, check, locals, sd_registered, signals, failure>>
    /\ UNCHANGED <<mysql, probes>>

\* deregister(): return agent.service.deregister(cluster_name).  The check
\* goes with the service, and with it the sessions bound to it.
SdDeregister(a) ==
    /\ pc[a] = "sd_deregister"
    /\ svcTag' = [svcTag EXCEPT ![a] = "absent"]
    /\ check' = [check EXCEPT ![a] = "none"]
    /\ Invalidate(NodeSessions(a))
    /\ sdLog' = [sdLog EXCEPT ![a] = Append(@, "deregister")]
    /\ pc' = [pc EXCEPT ![a] = SysExit(failure[a],
                                    DeregisterStep(pc[a], session[a] # NoSession))]
    /\ UNCHANGED <<locals, sd_registered, signals, failure>>
    /\ UNCHANGED <<mysql, probes>>

\* start_handler(): the service manager starts the agent again after the
\* process has ended; the new process knows nothing of the old one.
Restart(a) ==
    /\ pc[a] \in EndPcs
    /\ pc' = [pc EXCEPT ![a] = "register"]
    /\ SetLocals(a, NoLocals)
    /\ sd_registered' = [sd_registered EXCEPT ![a] = "None"]
    /\ sdLog' = [sdLog EXCEPT ![a] = <<>>]
    /\ signals' = [signals EXCEPT ![a] = 0]
    /\ failure' = [failure EXCEPT ![a] = "none"]
    /\ UNCHANGED coord
    /\ UNCHANGED <<mysql, probes>>

-----------------------------------------------------------------------------
\* Environment

\* The coordinator's HTTP probe of /health changes the status of the check;
\* a critical check invalidates the sessions bound to it.
CheckUpdate(a, st) ==
    /\ check[a] \notin {"none", st}
    /\ check' = [check EXCEPT ![a] = st]
    /\ IF st = "critical" THEN Invalidate(NodeSessions(a))
       ELSE UNCHANGED <<sessions, lock, lockDelay>>
    /\ UNCHANGED <<svcTag, pc, locals, shutdown, failure>>
    /\ UNCHANGED <<mysql, probes>>

\* A session is invalidated for another reason (serfHealth, an operator).
SessionInvalidate(s) ==
    /\ s \in sessions
    /\ Invalidate({s})
    /\ UNCHANGED <<svcTag, check, pc, locals, shutdown, failure>>
    /\ UNCHANGED <<mysql, probes>>

\* Another client of the coordinator (a second instance of the agent, an
\* operator's script) creates a session named <cluster> on node a, bound to
\* the same checks: the case get_existing_session() raises for.
ForeignSession(a) ==
    /\ check[a] = "passing"
    /\ FreeIds(a) # {}
    /\ sessions' = sessions \cup {NewSessionId(a)}
    /\ UNCHANGED <<svcTag, check, lock, lockDelay, pc, locals, shutdown, failure>>
    /\ UNCHANGED <<mysql, probes>>

\* The lock-delay (lock_delay=1) runs out.
LockDelayExpire ==
    /\ lockDelay
    /\ lockDelay' = FALSE
    /\ UNCHANGED <<svcTag, check, sessions, lock, pc, locals, shutdown, failure>>
    /\ UNCHANGED <<mysql, probes>>

-----------------------------------------------------------------------------
\* One step of monitor() on node a.
MonitorStep(a) ==
    \/ Register(a) \/ IsHealthy(a) \/ SetTag(a) \/ GetExistingSession(a)
    \/ SessionCreate(a) \/ SessionCreateFail(a) \/ CreateBackoff(a)
    \/ KvAcquire(a) \/ GetLeader(a) \/ SessionInfo(a)
    \/ EnsureMaster(a) \/ EnsureSlave(a)

\* One step of graceful_exit() on node a.
ShutdownStep(a) ==
    Deregister(a) \/ SdExistingSession(a) \/ SdDestroy(a) \/ SdDeregister(a)

Faults(a) == HandlerRaise(a) \/ CoordinatorError(a) \/ Signal(a)

Environment ==
    \/ \E a \in Nodes, st \in Statuses : CheckUpdate(a, st)
    \/ \E s \in SessionIds : SessionInvalidate(s)
    \/ LockDelayExpire

Next ==
    \/ \E a \in Nodes : MonitorStep(a)
    \/ \E a \in Nodes : ShutdownStep(a)
    \/ \E a \in Nodes : Faults(a)
    \/ \E a \in Nodes : Restart(a)
    \/ Environment

Spec == Init /\ [][Next]_vars

\* Every position is one the program has.
TypeOK ==
    /\ pc \in [Nodes -> MonitorPcs \cup ShutdownPcs \cup EndPcs]
    /\ svcTag \in [Nodes -> Tags \cup {"absent", "none"}]
    /\ check \in [Nodes -> Statuses \cup {"none"}]
    /\ sessions \subseteq SessionIds
    /\ lock \in sessions \cup {NoSession}
    /\ tag_arg \in [Nodes -> Tags \cup {"None"}]
    /\ \A a \in Nodes : pc[a] = "set_tag" => tag_arg[a] \in Tags

\* The control loops in a quiet environment: no signal, no failing RPC, no
\* raising handler, and sessions invalidated by their health check only.
LoopNext ==
    \/ \E a \in Nodes : MonitorStep(a)
    \/ \E a \in Nodes, st \in Statuses : CheckUpdate(a, st)
    \/ LockDelayExpire

\* A running process goes on executing (time.sleep() returns, an RPC answers),
\* so each agent's next step is eventually taken.  The lock-delay of one
\* second runs out.  Failures of session.create are transient: a create that
\* is retried while the check keeps passing is eventually accepted.
FairSpec ==
    /\ Init /\ [][LoopNext]_vars
    /\ WF_vars(LockDelayExpire)
    /\ \A a \in Nodes : WF_vars(MonitorStep(a)) /\ SF_vars(SessionCreate(a))

\* The control loops in a coordinator that other clients create sessions in.
OpenNext ==
    \/ LoopNext
    \/ \E a \in Nodes : ForeignSession(a)

OpenSpec == Init /\ [][OpenNext]_vars

\* A cold start of the cluster: A's agent is started, alone or together with
\* B's.  The control loops run in the quiet environment, under the fairness
\* of FairSpec.
ColdInit == MysqlIdle /\ ProbesIdle /\ \E S \in {{"A"}, Nodes} : Started(S)

ColdSpec ==
    /\ ColdInit
    /\ [][LoopNext]_vars
    /\ WF_vars(LockDelayExpire)
    /\ \A a \in Nodes : WF_vars(MonitorStep(a)) /\ SF_vars(SessionCreate(a))

-----------------------------------------------------------------------------
\* The Mysql handler and its server on the node hostname.  The control loop
\* calls ensure_master() and ensure_slave(leader) one at a time; each call is
\* a step.  c is the state of the connection the call finds.

agents == <<coord, pc, locals, shutdown, failure>>

\* ensure_master(): post_transactions() puts @@GLOBAL.GTID_EXECUTED, if it
\* is not empty, under mysql/<hostname>/transactions; read_only is set to 0
\* if it is not 0; then, with a slave status: return if the old master is
\* still ahead, else STOP SLAVE and RESET SLAVE ALL.
MysqlEnsureMaster(c) ==
    LET posts == c = "ok" /\ GTID_EXECUTED # {}
        opens == c # "down" /\ read_only # 0
        declines == c # "down" /\ Declines(Master_Host)
        stops == c # "down" /\ Master_Host # NoNode /\ ~declines
    IN /\ transactions' = IF posts THEN [transactions EXCEPT ![hostname] = GTID_EXECUTED]
                          ELSE transactions
       /\ read_only' = IF opens THEN 0 ELSE read_only
       /\ Master_Host' = IF stops THEN NoNode ELSE Master_Host
       /\ Slave_Running' = IF stops THEN FALSE ELSE Slave_Running
       /\ last' = [call |-> "ensure_master", arg |-> NoNode, conn |-> c,
                   before |-> Config,
                   statements |->
                       (IF opens THEN <<"SET GLOBAL read_only = 0">> ELSE <<>>)
                       \o (IF stops THEN <<"STOP SLAVE", "RESET SLAVE ALL">> ELSE <<>>),
                   put |-> posts,
                   kv_changed |-> posts /\ transactions[hostname] # GTID_EXECUTED,
                   declined |-> declines,
                   repeated |-> last.call = "ensure_master"]
       /\ UNCHANGED <<GTID_EXECUTED, agents, probes>>

\* ensure_slave(master_host): with no slave status (also when the query for
\* it failed) or another Master_Host, the master switch: read_only=1, STOP
\* SLAVE, RESET SLAVE ALL, CHANGE MASTER TO master_host, START SLAVE; else
\* STOP SLAVE and START SLAVE if the slave threads are not running, and
\* read_only = 1 if it is not 1.
MysqlEnsureSlave(master_host, c) ==
    LET switch == c # "down" /\ (c = "lost" \/ MasterSwitch(Master_Host, master_host))
        restarts == c = "ok" /\ ~switch /\ ~Slave_Running
        closes == c = "ok" /\ ~switch /\ read_only # 1
    IN /\ read_only' = IF switch \/ closes THEN 1 ELSE read_only
       /\ Master_Host' = IF switch THEN master_host ELSE Master_Host
       /\ Slave_Running' = IF switch \/ restarts THEN TRUE ELSE Slave_Running
       /\ last' = [call |-> "ensure_slave", arg |-> master_host, conn |-> c,
                   before |-> Config,
                   statements |->
                       IF switch
                       THEN <<"FLUSH LOCAL TABLES WITH READ LOCK", "SET GLOBAL read_only=1",
                              "UNLOCK TABLES", "STOP SLAVE", "RESET SLAVE ALL",
                              "CHANGE MASTER TO", "START SLAVE">>
                       ELSE (IF restarts THEN <<"STOP SLAVE", "START SLAVE">> ELSE <<>>)
                            \o (IF closes THEN <<"SET GLOBAL read_only = 1">> ELSE <<>>),
                   put |-> FALSE, kv_changed |-> FALSE, declined |-> FALSE,
                   repeated |-> last.call = "ensure_slave" /\ last.arg = master_host]
       /\ UNCHANGED <<GTID_EXECUTED, transactions, agents, probes>>

\* A client commits a transaction on the server, which accepts writes.
ClientWrite(t) ==
    /\ read_only = 0
    /\ t \notin GTID_EXECUTED
    /\ GTID_EXECUTED' = GTID_EXECUTED \cup {t}
    /\ UNCHANGED <<read_only, Master_Host, Slave_Running, transactions, last, agents, probes>>

\* The slave threads apply a transaction of the master.
Replicate(t) ==
    /\ Master_Host \notin {NoNode, hostname}
    /\ Slave_Running
    /\ t \in transactions[Master_Host] \ GTID_EXECUTED
    /\ GTID_EXECUTED' = GTID_EXECUTED \cup {t}
    /\ UNCHANGED <<read_only, Master_Host, Slave_Running, transactions, last, agents, probes>>

\* The handler of another node posts a transaction its server has executed.
OtherPosts(h, t) ==
    /\ h # hostname
    /\ t \notin transactions[h]
    /\ transactions' = [transactions EXCEPT ![h] = @ \cup {t}]
    /\ UNCHANGED <<read_only, Master_Host, Slave_Running, GTID_EXECUTED, last, agents, probes>>

\* The slave threads stop on an error.
SlaveStops ==
    /\ Slave_Running
    /\ Slave_Running' = FALSE
    /\ UNCHANGED <<read_only, Master_Host, GTID_EXECUTED, transactions, last, agents, probes>>

\* The server as the handler finds it when the agent starts: configured as
\* whatever it was before.
MysqlInit ==
    /\ Started(Nodes)
    /\ ProbesIdle
    /\ read_only \in {0, 1}
    /\ Master_Host \in Nodes \cup {NoNode}
    /\ Slave_Running \in {b \in BOOLEAN : b => Master_Host # NoNode}
    /\ GTID_EXECUTED = {}
    /\ transactions = [h \in Nodes |-> {}]
    /\ last = NoCall

MysqlNext ==
    \/ \E c \in Connections : MysqlEnsureMaster(c)
    \/ \E m \in Nodes, c \in Connections : MysqlEnsureSlave(m, c)
    \/ \E t \in Transactions : ClientWrite(t)
    \/ \E t \in Transactions : Replicate(t)
    \/ \E h \in Nodes, t \in Transactions : OtherPosts(h, t)
    \/ SlaveStops

MysqlSpec == MysqlInit /\ [][MysqlNext]_vars

-----------------------------------------------------------------------------
\* The API server.  A request path is held as self.path.split('/'), its
\* pieces around '/': "/health" is <<"", "health">>, "/" is <<"", "">>,
\* "/health/x" is <<"", "health", "x">>, and a path with no '/' in it is
\* one piece.  The HTTP server rewrites a path that starts with "//" to start
\* with one '/', so no path do_GET sees has two empty pieces in front.

MaxPieces == 3
Segments == {"", "health", "health?x", "status"}
Paths ==
    {p \in UNION {[1..n -> Segments] : n \in 1..MaxPieces} :
        ~(Len(p) >= 3 /\ p[1] = "" /\ p[2] = "")}
Texts == {"ok", "down"}

\* status_code = {True: 200}.get(state_ok, 500)
StatusCode(state_ok) == IF state_ok = "True" THEN 200 ELSE 500

\* do_GET dispatches on the first piece after the leading one.
Endpoint(pieces) == IF Tail(pieces)[1] = "health" THEN "health" ELSE "unsupported"

\* do_GET: with no piece after the first, send_error('No command
\* specified') is called with the message in the place of the status code,
\* and send_response raises TypeError on it before anything is written; with
\* "health" as the first piece after the leading one the answer is
\* handler.health()'s; every other request is an unsupported endpoint.
do_GET(pieces, h) ==
    IF Tail(pieces) = <<>>
    THEN [sent |-> "TypeError", status_code |-> 0, response_text |-> "",
          health_called |-> FALSE]
    ELSE LET called == Endpoint(pieces) = "health"
             state == IF called THEN h ELSE <<"False", "Unsupported endpoint">>
         IN [sent |-> "response", status_code |-> StatusCode(state[1]),
             response_text |-> state[2], health_called |-> called]

\* The API server handles the request.
DoGet ==
    /\ response = NoResponse
    /\ response' = do_GET(path, health)
    /\ UNCHANGED <<path, health, checks, check_state, agents, mysql>>

\* A GET request for any path, with the handler in any state of health.
HttpInit ==
    /\ Started(Nodes)
    /\ MysqlIdle
    /\ path \in Paths
    /\ health \in {"True", "False"} \X Texts
    /\ response = NoResponse
    /\ checks = NoChecks
    /\ check_state = "None"

HttpNext == DoGet

HttpSpec == HttpInit /\ [][HttpNext]_vars

-----------------------------------------------------------------------------
\* is_healthy() on its own, over what consul.agent.checks() can return: a
\* dict from check names to checks, a check being held as the value of its
\* 'Status' key ("None": the check has no such key).

ServiceCheck == "service:cluster"
CheckNames == {"serfHealth", ServiceCheck, "service:other"}
CheckStatuses == {"passing", "warning", "critical", "maintenance", "None"}
AgentChecks == UNION {[D -> CheckStatuses] : D \in SUBSET CheckNames}

\* is_healthy(): False if the agent has no checks; False if it has no check
\* service:<cluster>; else {'passing': True}.get(consul_status, False).
CheckState(cs) ==
    IF DOMAIN cs = {} THEN "False"
    ELSE IF ServiceCheck \notin DOMAIN cs THEN "False"
    ELSE IsHealthyOf(cs[ServiceCheck])

\* The agent calls is_healthy().
IsHealthyCall ==
    /\ check_state = "None"
    /\ check_state' = CheckState(checks)
    /\ UNCHANGED <<path, health, response, checks, agents, mysql>>

\* The local Consul agent reports any set of checks.
ChecksInit ==
    /\ Started(Nodes)
    /\ MysqlIdle
    /\ path = HealthPath
    /\ health = <<"True", "ok">>
    /\ response = NoResponse
    /\ checks \in AgentChecks
    /\ check_state = "None"

ChecksNext == IsHealthyCall

ChecksSpec == ChecksInit /\ [][ChecksNext]_vars

-----------------------------------------------------------------------------
\* Properties

\* Node a's session holds the leader lock.
HoldsLock(a) == SessionNode(lock) = a

\* C1: Single-master.  In every reachable state at most one agent's service
\* registration carries the tag 'master'.
C1_SingleMaster == Cardinality({a \in Nodes : svcTag[a] = "master"}) <= 1

\* C2: Split-brain avoidance.  ensure_master() is called (or about to be
\* called) only in a tick whose acquire returned true, on an agent that
\* observed itself healthy and not disabled in that tick.
C2_EnsureMasterOnlyAfterAcquire ==
    \A a \in Nodes :
        (pc[a] = "ensure_master" \/ MasterCall \in calls[a]) =>
            /\ acquired[a] = "True"
            /\ is_healthy[a] = "True"
            /\ flag_seen[a] = "False"

C2_Witness ==
    \E a \in Nodes : pc[a] = "sleep" /\ MasterCall \in calls[a] /\ acquired[a] = "True"

\* C3: No-master-when-unhealthy.  In a tick that read a check status other
\* than 'passing', the agent only runs set_tag('unhealthy'): no handler call
\* is made or pending, and when the tick is over the tag is 'unhealthy'.
C3_NoMasterWhenUnhealthy ==
    \A a \in Nodes :
        consul_status[a] \notin {"unset", "passing"} =>
            /\ pc[a] \in {"set_tag", "sleep"}
            /\ tag_arg[a] = "unhealthy"
            /\ calls[a] = {}
            /\ (pc[a] = "sleep" => svcTag[a] = "unhealthy")

C3_Witness ==
    \E a \in Nodes :
        pc[a] = "sleep" /\ consul_status[a] = "critical" /\ svcTag[a] = "unhealthy"

\* C4: Disable overrides.  An agent that has run a tick with the disable flag
\* present does not hold the leader lock.
C4_DisabledNeverHoldsLock ==
    \A a \in Nodes : (pc[a] = "sleep" /\ flag_seen[a] = "True") => ~HoldsLock(a)

\* C5: Disable flag mid-leadership.  With A and B running and healthy, A
\* seeing its disable flag on every tick and B never seeing one: once A is
\* tagged 'disabled' while its session still holds the lock, B eventually
\* has the tag 'master' with ensure_master called.
C5_Hypothesis ==
    /\ pc["A"] \in MonitorPcs /\ pc["B"] \in MonitorPcs
    /\ check["A"] = "passing" /\ check["B"] = "passing"
    /\ flag_seen["A"] # "False" /\ flag_seen["B"] # "True"

C5_DisabledMasterIsReplaced ==
    <>[]C5_Hypothesis =>
        ((svcTag["A"] = "disabled" /\ HoldsLock("A")) ~>
            (svcTag["B"] = "master" /\ MasterCall \in calls["B"]))

\* C6 (as stated): graceful_exit deregisters the service and then destroys
\* the session; a process that did both and exited did them in that order.
C6_DeregisterThenDestroy ==
    \A a \in Nodes :
        (pc[a] = "exited" /\ Len(sdLog[a]) = 2) => sdLog[a] = <<"deregister", "destroy">>

\* C6 (amended): graceful_exit destroys the node's session, if it finds one,
\* and then deregisters the service: no destroy follows the deregistration,
\* and a process that found the service registered and exited with status 0
\* deregistered it as its last coordinator call.
C6_DestroyThenDeregister ==
    \A a \in Nodes :
        /\ sdLog[a] \in {<<>>, <<"destroy">>, <<"deregister">>, <<"destroy", "deregister">>}
        /\ (pc[a] \in {"sd_destroy", "sd_deregister"} => "deregister" \notin
                {sdLog[a][i] : i \in 1..Len(sdLog[a])})
        /\ (pc[a] = "exited" =>
                IF sd_registered[a] = "True"
                THEN sdLog[a] # <<>> /\ sdLog[a][Len(sdLog[a])] = "deregister"
                ELSE sdLog[a] = <<>>)

C6_Witness ==
    \E a \in Nodes : pc[a] = "exited" /\ sdLog[a] = <<"destroy", "deregister">>

\* C7: Shutdown is best-effort.  A process that received SIGINT/SIGTERM and
\* has ended, ended with exit status 0.
C7_SignalledExitsZero ==
    \A a \in Nodes : (signals[a] > 0 /\ ~Running(a)) => ExitStatus(a) = 0

\* C8: Transient coordinator errors are survived.  A failing coordinator RPC
\* of a tick does not end the control loop.
C8_LoopSurvivesCoordinatorError ==
    \A a \in Nodes : (failure[a] = "rpc" /\ signals[a] = 0) => Running(a)

\* C9: Handler failures are survived.  An exception of ensure_master or
\* ensure_slave does not end the control loop.
C9_LoopSurvivesHandlerFailure ==
    \A a \in Nodes : failure[a] = "handler" => Running(a)

\* C10: Lock held by a stale session.  When session_info cannot resolve the
\* lock's session, the control loop keeps running.
C10_LoopSurvivesStaleLockSession ==
    \A a \in Nodes : failure[a] = "invalid_leader_session" => Running(a)

\* C11: Existing-session lookup.  get_existing_session() gives the node's
\* session when the node has exactly one session named <cluster>, none when
\* it has none (get_session() then goes on to create one), and raises when
\* it has more than one; the exception ends the control loop before any
\* acquire or handler call of that tick, and the loop stays ended.
C11_ExistingSession ==
    [][\A a \in Nodes :
        /\ (pc[a] = "get_existing_session" /\ pc'[a] # pc[a]) =>
              LET ls == NodeSessions(a) IN
                /\ ls = {} => (session'[a] = NoSession /\ pc'[a] = "session_create")
                /\ Cardinality(ls) = 1 => (session'[a] \in ls /\ pc'[a] = "kv_acquire")
                /\ Cardinality(ls) > 1 =>
                      /\ pc'[a] = "crashed" /\ failure'[a] = "multiple_sessions"
                      /\ acquired[a] = "None" /\ calls[a] = {}
                      /\ "acquire" \notin {steps[a][i] : i \in 1..Len(steps[a])}
                      /\ lock' = lock
        /\ (failure[a] = "multiple_sessions" => pc'[a] = "crashed")
      ]_vars

C11_Witness ==
    \E a \in Nodes :
        pc[a] = "crashed" /\ failure[a] = "multiple_sessions"
            /\ Cardinality(NodeSessions(a)) > 1

\* The stages of monitor()'s loop body that agent a has run in this tick.
StagesRun(a) == {steps[a][i] : i \in 1..Len(steps[a])}

IsPrefix(s, t) == Len(s) <= Len(t) /\ \A i \in 1..Len(s) : s[i] = t[i]

\* Position of the first occurrence of stage x in the sequence s (0: none).
StageIndex(s, x) ==
    IF \E i \in 1..Len(s) : s[i] = x
    THEN CHOOSE i \in 1..Len(s) : s[i] = x /\ \A j \in 1..(i - 1) : s[j] # x
    ELSE 0

\* C13 (as stated): the stages of a tick run in the order health, disable,
\* session, acquire, role action (ensure_*), tag update: a tick that has run
\* both the role action and the tag update ran the role action first.
C13_RoleActionBeforeTag ==
    \A a \in Nodes :
        {"role", "tag"} \subseteq StagesRun(a) =>
            StageIndex(steps[a], "role") < StageIndex(steps[a], "tag")

\* The orders in which a tick of monitor() runs its stages, one per way the
\* tick can end: unhealthy, disabled, no leader found, role taken.
TickOrders ==
    {<<"health", "tag">>,
     <<"health", "disable", "tag">>,
     <<"health", "disable", "session", "acquire">>,
     <<"health", "disable", "session", "acquire", "tag", "role">>}

\* C13 (amended): the stages of a tick run in the order health, disable,
\* session, acquire, tag update, role action (ensure_*): what a tick has run
\* so far is an initial part of one of the orders, a finished tick has run
\* one of them completely, and the tag is written before the handler's role
\* action of that tick.
C13_TagBeforeRoleAction ==
    \A a \in Nodes :
        /\ \E t \in TickOrders : IsPrefix(steps[a], t)
        /\ (pc[a] = "sleep" /\ steps[a] # <<>>) => steps[a] \in TickOrders
        /\ "role" \in StagesRun(a) =>
              StageIndex(steps[a], "tag") = StageIndex(steps[a], "role") - 1

C13_Witness ==
    \E a \in Nodes :
        /\ pc[a] = "sleep"
        /\ steps[a] = <<"health", "disable", "session", "acquire", "tag", "role">>
        /\ svcTag[a] = "master" /\ MasterCall \in calls[a]

\* C14: Leader failure.  Take a moment at which A is tagged 'master', B is
\* a running, healthy slave and A's check has stopped passing (so A's
\* session is invalidated and the lock released).  If from then on B stays
\* healthy and sees no disable flag and A's check does not pass again, then
\* B eventually has the tag 'master' with ensure_master called.
C14_LeaderHasFailed ==
    /\ svcTag["A"] = "master" /\ check["A"] = "critical"
    /\ svcTag["B"] = "slave" /\ pc["B"] \in MonitorPcs

C14_SlaveStaysHealthy ==
    /\ check["B"] = "passing" /\ flag_seen["B"] # "True"
    /\ check["A"] = "critical"

C14_LeaderFailure ==
    [](C14_LeaderHasFailed =>
        ([]C14_SlaveStaysHealthy =>
            <>(svcTag["B"] = "master" /\ MasterCall \in calls["B"])))

\* C15: Two nodes, one leader.  A healthy, non-disabled agent whose acquire
\* failed reads the lock; when the session it read resolves to a node L, L
\* is the node of that session, the agent sets the tag 'slave' and calls
\* ensure_slave(L), and it makes no other ensure_slave call in that tick.
C15_SlaveFollowsLockHolder ==
    /\ [](\A a \in Nodes :
            /\ (pc[a] = "ensure_slave" \/ calls[a] \ {MasterCall} # {}) =>
                  /\ acquired[a] = "False" /\ is_healthy[a] = "True"
                  /\ flag_seen[a] = "False"
                  /\ leader[a] \in Nodes /\ svcTag[a] = "slave"
                  /\ calls[a] \subseteq {SlaveCall(leader[a])}
            /\ (pc[a] = "sleep" /\ acquired[a] = "False" /\ leader[a] # NoNode) =>
                  (svcTag[a] = "slave" /\ calls[a] = {SlaveCall(leader[a])})
            /\ pc[a] = "session_info" => leader_session[a] # NoSession)
    /\ [][\A a \in Nodes :
            /\ (pc[a] = "get_leader" /\ pc'[a] = "session_info") =>
                  leader_session'[a] = lock
            /\ (pc[a] = "session_info" /\ leader'[a] # NoNode) =>
                  /\ leader_session[a] \in sessions
                  /\ leader'[a] = leader_session[a][1]
       ]_vars

C15_Witness ==
    /\ pc["A"] = "sleep" /\ svcTag["A"] = "master" /\ HoldsLock("A")
    /\ pc["B"] = "sleep" /\ svcTag["B"] = "slave"
    /\ calls["B"] = {SlaveCall("A")}

\* C16: Cold start, sole node.  A single agent (B's is never started)
\* registers the service and, if
\* its handler is healthy (the check, once it passes, keeps passing, and it
\* does pass) and from some tick on it sees no disable flag, it eventually
\* ends a tick in which it obtained a session, acquired the lock, set the
\* tag 'master' and called ensure_master exactly once.
C16_MasterTick ==
    /\ pc["A"] = "sleep" /\ svcTag["A"] = "master" /\ HoldsLock("A")
    /\ steps["A"] = <<"health", "disable", "session", "acquire", "tag", "role">>
    /\ calls["A"] = {MasterCall}

C16_SoleHealthyNode ==
    /\ [](pc["B"] = "exited")
    /\ [](check["A"] = "passing" => [](check["A"] = "passing"))
    /\ <>(check["A"] = "passing")

C16_ColdStartSoleNode ==
    (C16_SoleHealthyNode /\ <>[](flag_seen["A"] # "True")) => <>C16_MasterTick

C16_Witness ==
    /\ C16_MasterTick /\ pc["B"] = "exited" /\ svcTag["B"] = "absent"
    /\ sessions = {lock}

\* C17: Handler declines ensure_master.  Whatever ensure_master() did before
\* it returned, the agent's tag is 'master' after the call; a tick that ends
\* with the acquire answered true has called ensure_master; and while the
\* session of an agent that is tagged 'master' and has had ensure_master
\* return holds the lock, no other agent has an acquire answered true or
\* sets its tag to 'master'.
C17_DeclinedMasterStaysSoleMaster ==
    /\ [](\A a \in Nodes :
            /\ MasterCall \in calls[a] => svcTag[a] = "master"
            /\ (pc[a] = "sleep" /\ acquired[a] = "True") => calls[a] = {MasterCall})
    /\ [][\A a, b \in Nodes :
            (a # b /\ svcTag[a] = "master" /\ MasterCall \in calls[a]
                   /\ HoldsLock(a) /\ lock' = lock) =>
                /\ ~(acquired[b] # "True" /\ acquired'[b] = "True")
                /\ ~(svcTag[b] # "master" /\ svcTag'[b] = "master")
       ]_vars

\* C19: At most one session per (node, cluster).  Through ticks, failing and
\* retried creates, invalidations and restarts of the agent, no node ever has
\* more than one session named <cluster>, and a session appears only by the
\* create of get_session() on a node that has none.
C19_OneSessionPerNode ==
    /\ [](\A a \in Nodes : Cardinality(NodeSessions(a)) <= 1)
    /\ [][\A s \in sessions' \ sessions :
            /\ NodeSessions(SessionNode(s)) = {}
            /\ pc[SessionNode(s)] = "session_create"
       ]_vars

\* A restarted agent about to register while the session of the process
\* before it is still there.
C19_Witness ==
    \E a \in Nodes :
        pc[a] = "register" /\ svcTag[a] # "absent" /\ NodeSessions(a) # {}

\* C18: Mysql.ensure_master declines without effect.  A call of
\* ensure_master() that returns because the former master is still ahead has
\* issued no statement that changes the server: read_only is what it was
\* (writes are not opened) and the slave configuration is untouched.
C18_DeclineHasNoEffect ==
    (last.call = "ensure_master" /\ last.declined) =>
        /\ last.statements = <<>>
        /\ read_only = last.before[1]
        /\ Master_Host = last.before[2]

\* The server is a master at rest: writable, no slave configuration.
MasterSteady(config) == config = <<0, NoNode, FALSE>>

\* The server is a slave of m at rest: read-only, replicating from m.
SlaveSteady(config, m) == config = <<1, m, TRUE>>

\* A repeated call of ensure_master() that found the master at rest.
RepeatedMaster ==
    /\ last.call = "ensure_master" /\ last.repeated
    /\ last.conn = "ok" /\ MasterSteady(last.before)

\* A repeated call of ensure_slave(m) that found the slave of m at rest.
RepeatedSlave ==
    /\ last.call = "ensure_slave" /\ last.repeated
    /\ last.conn = "ok" /\ SlaveSteady(last.before, last.arg)

C21_HealthEndpoint ==
    response # NoResponse =>
        IF path = HealthPath
        THEN /\ response.sent = "response"
             /\ response.status_code = (IF health[1] = "True" THEN 200 ELSE 500)
        ELSE /\ response.sent = "response"
             /\ response.status_code = 500
             /\ response.response_text = "Unsupported endpoint"
             /\ ~response.health_called

\* The tick agent a is in found the node unhealthy, or healthy with the
\* disable flag file present.
SkipTick(a) ==
    \/ is_healthy[a] = "False"
    \/ is_healthy[a] = "True" /\ flag_seen[a] = "True"

SkipTag(a) == IF is_healthy[a] = "False" THEN "unhealthy" ELSE "disabled"

SkipStages(a) == IF is_healthy[a] = "False" THEN <<"health", "tag">>
                 ELSE <<"health", "disable", "tag">>

\* C22: on a tick where the node is unhealthy, or healthy with the disable
\* flag present, the controller looks up and creates no session, makes no KV
\* acquire, reads no lock and calls no handler; the only thing it changes at
\* the coordinator is the tag, to 'unhealthy' resp. 'disabled'.
C22_SkipTickLeavesCoordinator ==
    /\ [](\A a \in Nodes : SkipTick(a) =>
            /\ pc[a] \in {"set_tag", "sleep"}
            /\ IsPrefix(steps[a], SkipStages(a))
            /\ session[a] = NoSession
            /\ acquired[a] = "None"
            /\ leader_session[a] = NoSession
            /\ leader[a] = NoNode
            /\ calls[a] = {}
            /\ tag_arg[a] = SkipTag(a))
    /\ [][\A a \in Nodes :
            /\ (~SkipTick(a) /\ SkipTick(a)') => coord' = coord
            /\ (SkipTick(a) /\ pc[a] = "set_tag" /\ pc'[a] # "set_tag") =>
                 /\ sessions' = sessions
                 /\ lock' = lock
                 /\ lockDelay' = lockDelay
                 /\ svcTag' \in {svcTag, [svcTag EXCEPT ![a] = SkipTag(a)]}
                 /\ pc'[a] = "sleep" => svcTag'[a] = SkipTag(a)]_vars

\* One agent has finished a disabled tick while its session holds the lock,
\* the other an unhealthy tick.
C22_Witness ==
    \E a, b \in Nodes :
        /\ is_healthy[a] = "True" /\ flag_seen[a] = "True"
        /\ steps[a] = <<"health", "disable", "tag">>
        /\ svcTag[a] = "disabled"
        /\ HoldsLock(a)
        /\ is_healthy[b] = "False"
        /\ steps[b] = <<"health", "tag">>
        /\ svcTag[b] = "unhealthy"

\* C23: is_healthy returns true exactly when the local agent has a check
\* named service:<cluster> whose status is 'passing'; it returns false when
\* the agent has no checks, when that check is missing, and for every other
\* status.
C23_HealthMapping ==
    check_state # "None" =>
        /\ check_state \in {"True", "False"}
        /\ check_state = "True" <=>
             (ServiceCheck \in DOMAIN checks /\ checks[ServiceCheck] = "passing")
        /\ DOMAIN checks = {} => check_state = "False"
        /\ ServiceCheck \notin DOMAIN checks => check_state = "False"
        /\ (ServiceCheck \in DOMAIN checks /\ checks[ServiceCheck] # "passing") =>
             check_state = "False"

\* is_healthy() has returned True while the node's serfHealth check is
\* critical and another service's check is in warning.
C23_Witness ==
    /\ check_state = "True"
    /\ DOMAIN checks = CheckNames
    /\ checks["serfHealth"] = "critical"
    /\ checks["service:other"] = "warning"

\* C24: an agent never calls ensure_slave with its own node name: whenever
\* its acquire fails the lock is not held by a session of its own node, and
\* the leader it resolves, the lock session it looks up and the argument of
\* every ensure_slave call are another node's, also after its session was
\* invalidated and created again and while the lock-delay runs.
C24_NeverSlaveOfItself ==
    /\ [](\A a \in Nodes :
            /\ SlaveCall(a) \notin calls[a]
            /\ leader[a] # a
            /\ SessionNode(leader_session[a]) # a
            /\ (acquired[a] = "False" /\ leader[a] # NoNode) =>
                  leader[a] \in Nodes \ {a})
    /\ [][\A a \in Nodes :
            /\ (pc[a] = "kv_acquire" /\ acquired'[a] = "False") => ~HoldsLock(a)
            /\ (pc[a] = "ensure_slave" /\ pc'[a] = "sleep") =>
                  \E l \in Nodes \ {a} : calls'[a] = {SlaveCall(l)}
       ]_vars

\* An agent with a session of its own is calling ensure_slave with the other
\* node's name while that node's session is gone and the lock-delay runs.
C24_Witness ==
    \E a \in Nodes : \E l \in Nodes \ {a} :
        /\ pc[a] = "ensure_slave"
        /\ acquired[a] = "False"
        /\ leader[a] = l
        /\ NodeSessions(a) # {}
        /\ NodeSessions(l) = {}
        /\ lock = NoSession
        /\ lockDelay

====
